---- MODULE Spec2Model ----
(***************************************************************************)
(* Session/process orchestration core of the Fluttery server.             *)
(*                                                                         *)
(*   SessionManager     server/src/services/sessionManager.ts              *)
(*   MultiAgentService  server/src/services/multiAgentService.ts           *)
(*   MasterOrchestrator server/src/agents/MasterOrchestratorAgent.ts       *)
(*                                                                         *)
(* The host runtime is the Node.js event loop: a handler runs without      *)
(* interruption up to its next await on I/O (file system, child process,   *)
(* generative-AI call, timer).  Every action below is one such run.        *)
(***************************************************************************)
EXTENDS Integers, Sequences, FiniteSets, TLC

(***************************************************************************)
(* Bounds of the model.                                                    *)
(***************************************************************************)
\* createSession calls made in one behaviour of SpecStore
MaxCreateCalls == 3
\* createSession calls made in one behaviour of Spec
MaxProcSessions == 1
\* terminateSession calls that find a record, made by clients, the idle sweep
\* or shutdown in one behaviour
MaxTerminateCalls == 1
\* the code's maxSessions is 50 (sessionManager.ts:28), scaled down
maxSessions == 2
\* the code scans 1000 ports (sessionManager.ts:49), scaled down
PortRange == 3

\* processUserPrompt and continueExecution calls made in one behaviour
MaxCalls == 2
\* call-stack frames addPlan may nest before the runtime throws RangeError;
\* any acyclic plan of the model needs fewer
MaxStackDepth == 4
\* the dispatches of one task that are counted (runs stays at this value
\* when the task is dispatched again)
MaxRuns == 2

\* createSession calls made in one behaviour of SpecSweep
MaxSweepSessions == 2
\* plans in an array given to sortPlansByDependencies
MaxTasks == 3
\* dependencies a plan of such an array names
MaxDeps == 1
\* calls of sortPlansByDependencies on one array
MaxSorts == 2
\* createSession calls made in one behaviour of SpecRemove
MaxRemoveSessions == 2
\* the clock stops at this value (the unit is the idle threshold's)
MaxTime == 2
\* the code's inactiveThreshold is one hour (sessionManager.ts:333), scaled
\* down to one unit of the clock
inactiveThreshold == 1

\* sessionManager.ts:27
basePort == 8080

Ids == 1..(IF MaxCreateCalls > MaxProcSessions THEN MaxCreateCalls ELSE MaxProcSessions)
Ports == basePort..(basePort + PortRange - 1)
NoPort == 0

VARIABLES
    sessions,      \* keys of SessionManager.sessions (the Map)
    usedPorts,     \* SessionManager.usedPorts
    session,       \* the FlutterSession objects, by id (they outlive the Map entry)
    proc,          \* the child process of each session: none, running, failed, exited
    killed,        \* ChildProcess.killed: a signal was delivered by kill()
    sigkill,       \* a SIGKILL was delivered to the child
    createPc,      \* where each createSession call stands
    createErr,     \* the error the latest createSession call threw at once, if any
    nCreate,       \* createSession calls made so far
    createLimit,   \* createSession calls the clients make in this behaviour
    terms,         \* terminateSession calls suspended in fs.remove, per session
    nTerminate,    \* terminateSession calls made so far, createSession's aside
    graceTimer     \* the 5 s timers set by terminateSession, per session:
                   \* none set, pending, or fired (the timers of one session
                   \* run the same check on the same objects)

VARIABLES
    orchPhase,     \* MasterOrchestratorAgent.state.currentPhase
    plansRef,      \* which plans array state.plans is (0: the constructor's [])
    heap,          \* the plans arrays created by createExecutionPlan, by number
    finalResult,   \* MasterOrchestratorAgent.state.finalResult
    maStatus,      \* MultiAgentSession.status
    progress,      \* MultiAgentSession.progress
    calls,         \* the processUserPrompt and continueExecution calls
    nCalls,        \* calls made so far
    workspace      \* what generateFlutterProject did to the session

VARIABLES
    clock,         \* the time, as new Date() reads it
    sweep,         \* the pass of the cleanup timer's callback that is running
    response,      \* the answer to the latest POST /:sessionId/code
    shut,          \* the shutdown() call of the signal handler
    exited,        \* process.exit was called
    upd            \* the updateSessionCode call in progress, or the last one

VARIABLES
    rmFailed,      \* sessions for which an fs.remove of terminateSession failed
    termRejected,  \* sessions for which a terminateSession call rejected
    genFailed      \* sessions whose generation of the initial code failed

outcomeVars == <<rmFailed, termRejected, genFailed>>

VARIABLES
    taskList,      \* the plans array given to sortPlansByDependencies
    sortResults    \* what the calls of sortPlansByDependencies on it returned

sortVars == <<taskList, sortResults>>

VARIABLES
    maSessions     \* the keys of MultiAgentService's sessions map

serviceVars == <<maSessions>>

envVars == <<clock, sweep, response, shut, exited, upd, outcomeVars, sortVars, serviceVars>>

orchVars == <<orchPhase, plansRef, heap, finalResult, maStatus, progress,
              calls, nCalls, workspace>>

smVars == <<sessions, usedPorts, session, proc, killed, sigkill, createPc,
            createErr, nCreate, createLimit, terms, nTerminate, graceTimer>>

\* the session manager's variables but the session objects
smRest == <<sessions, usedPorts, proc, killed, sigkill, createPc, createErr,
            nCreate, createLimit, terms, nTerminate, graceTimer>>

vars == <<smVars, orchVars, envVars>>

NoSession ==
    [port |-> NoPort, status |-> "none", flutterProcess |-> FALSE,
     lastActive |-> 0]

\* state after the SessionManager singleton is constructed
SMInit(limit) ==
    /\ createLimit = limit
    /\ sessions = {}
    /\ usedPorts = {}
    /\ session = [i \in Ids |-> NoSession]
    /\ proc = [i \in Ids |-> "none"]
    /\ killed = [i \in Ids |-> FALSE]
    /\ sigkill = [i \in Ids |-> FALSE]
    /\ createPc = [i \in Ids |-> "none"]
    /\ createErr = "none"
    /\ nCreate = 0
    /\ terms = [i \in Ids |-> 0]
    /\ nTerminate = 0
    /\ graceTimer = [i \in Ids |-> "none"]

NoSweep == [pc |-> "idle", now |-> 0, cur |-> 0]

NoUpdate ==
    [pc |-> "none", id |-> 0, result |-> "none", wrote |-> FALSE,
     reload |-> "none"]

NoShutdown == [pc |-> "none", live |-> {}, wait |-> {}]

\* state of the clock and of the timers after construction
EnvInit ==
    /\ clock = 0
    /\ sweep = NoSweep
    /\ response = "none"
    /\ shut = NoShutdown
    /\ exited = FALSE
    /\ upd = NoUpdate
    /\ rmFailed = {}
    /\ termRejected = {}
    /\ genFailed = {}

\* the multi-agent service starts with an empty sessions map
NoMultiAgentSession == maSessions = {}

\* no plans array has been sorted
SortIdle ==
    /\ taskList = <<>>
    /\ sortResults = <<>>

Min(S) == CHOOSE x \in S : \A y \in S : x <= y

\* a scan of the range from its upper end
getHighestAvailablePort(used) ==
    IF Ports \ used = {} THEN NoPort
    ELSE CHOOSE x \in Ports \ used : \A y \in Ports \ used : x >= y

\* getNextAvailablePort: the lowest port of the range not in usedPorts,
\* NoPort standing for the thrown 'No available ports' error
getNextAvailablePort(used) ==
    IF Ports \ used = {} THEN NoPort ELSE Min(Ports \ used)

\* a release that leaves the port held
ReleasePortLeak(used, p) == used

\* usedPorts.delete(session.port) of terminateSession
ReleasePort(used, p) == used \ {p}

\* a capacity check that lets one session too many in
AtCapacityOffByOne(n) == n > maxSessions

\* this.sessions.size >= this.maxSessions of createSession
AtCapacity(n) == n >= maxSessions

\* ChildProcess.kill(signal): the signal is delivered, and killed set, only
\* while the child is running
Delivered(i) == proc[i] = "running"

\* the part of terminateSession that runs before it suspends in fs.remove:
\* SIGTERM to the child and the 5 s timer, when the session has a child
KillAndArm(i) ==
    IF session[i].flutterProcess
    THEN /\ killed' = [killed EXCEPT ![i] = @ \/ Delivered(i)]
         /\ graceTimer' = [graceTimer EXCEPT ![i] = "pending"]
    ELSE UNCHANGED <<killed, graceTimer>>

\* createSession up to its first await
CreateSession ==
    /\ ~exited
    /\ nCreate < createLimit
    /\ nCreate' = nCreate + 1
    /\ UNCHANGED createLimit
    /\ LET id == nCreate + 1
           port == getNextAvailablePort(usedPorts)
       IN IF AtCapacity(Cardinality(sessions))
          THEN /\ createErr' = "capacity"
               /\ UNCHANGED <<sessions, usedPorts, session, createPc>>
          ELSE IF port = NoPort
          THEN /\ createErr' = "ports"
               /\ UNCHANGED <<sessions, usedPorts, session, createPc>>
          ELSE /\ createErr' = "none"
               /\ sessions' = sessions \cup {id}
               /\ usedPorts' = usedPorts \cup {port}
               /\ session' = [session EXCEPT ![id] =
                      [port |-> port, status |-> "initializing",
                       flutterProcess |-> FALSE, lastActive |-> clock]]
               /\ createPc' = [createPc EXCEPT ![id] = "init"]
    /\ UNCHANGED <<orchVars, envVars, proc, killed, sigkill, terms, nTerminate, graceTimer>>

\* a failure to generate the initial code rejects initializeFlutterProject
PropagateGeneration(generated) == generated

\* the try/catch around aiService.generateFlutterCode and the writes that
\* follow it: the failure is logged and the default template is kept
CatchGeneration(generated) == TRUE

\* the catch block of createSession: status 'error', then terminateSession
\* up to its await (or to its return, when the record is gone)
Rollback(i) ==
    /\ session' = [session EXCEPT ![i].status = "error"]
    /\ IF i \in sessions
       THEN /\ KillAndArm(i)
            /\ createPc' = [createPc EXCEPT ![i] = "rollback"]
       ELSE /\ createPc' = [createPc EXCEPT ![i] = "failed"]
            /\ UNCHANGED <<killed, graceTimer>>

\* createSession from the moment flutter create has succeeded and the
\* generation of the initial code, if any, has settled
InitProjectSettle(i, generated) ==
    /\ createPc[i] = "init"
    /\ genFailed' = IF generated THEN genFailed ELSE genFailed \cup {i}
    /\ IF CatchGeneration(generated)
       THEN /\ proc' = [proc EXCEPT ![i] = "running"]
            /\ session' = [session EXCEPT ![i].flutterProcess = TRUE]
            /\ createPc' = [createPc EXCEPT ![i] = "starting"]
            /\ UNCHANGED <<killed, graceTimer>>
       ELSE /\ Rollback(i)
            /\ UNCHANGED proc
    /\ UNCHANGED <<orchVars, clock, sweep, response, shut, exited, upd,
                   rmFailed, termRejected, sortVars, serviceVars, sessions, usedPorts, sigkill,
                   createErr, nCreate, createLimit, terms, nTerminate>>

\* initializeFlutterProject returns; startFlutterServer spawns the child and
\* suspends on its promise
InitProjectOk(i) ==
    /\ ~exited
    /\ InitProjectSettle(i, TRUE)

\* the same after the generation of the initial code failed
InitProjectGenFail(i) ==
    /\ ~exited
    /\ InitProjectSettle(i, FALSE)

\* the same, but spawn fails: the child never runs and reports it by an
\* 'error' event
SpawnFail(i) ==
    /\ ~exited
    /\ createPc[i] = "init"
    /\ proc' = [proc EXCEPT ![i] = "failed"]
    /\ session' = [session EXCEPT ![i].flutterProcess = TRUE]
    /\ createPc' = [createPc EXCEPT ![i] = "starting"]
    /\ UNCHANGED <<orchVars, envVars, sessions, usedPorts, killed, sigkill, createErr, nCreate,
                   createLimit, terms, nTerminate, graceTimer>>

\* flutter create fails (execAsync rejects)
InitProjectFail(i) ==
    /\ ~exited
    /\ createPc[i] = "init"
    /\ Rollback(i)
    /\ UNCHANGED <<orchVars, envVars, sessions, usedPorts, proc, sigkill, createErr, nCreate, createLimit,
                   terms, nTerminate>>

\* the 'data' event with the readiness marker the child has printed: the
\* promise resolves and createSession returns the session with status
\* 'ready'.  The runtime may deliver the 'exit' event of a child before the
\* data it wrote to its stdout, which stays open after 'exit'
ServerReady(i) ==
    /\ ~exited
    /\ createPc[i] = "starting"
    /\ proc[i] \in {"running", "exited"}
    /\ session' = [session EXCEPT ![i].status = "ready"]
    /\ createPc' = [createPc EXCEPT ![i] = "ready"]
    /\ UNCHANGED <<orchVars, envVars, sessions, usedPorts, proc, killed, sigkill, createErr,
                   nCreate, createLimit, terms, nTerminate, graceTimer>>

\* a startup timer that the 'exit' handler clears: it fires only while the
\* child runs
StartTimeoutWhileRunning(i) ==
    /\ ~exited
    /\ createPc[i] = "starting"
    /\ proc[i] = "running"
    /\ Rollback(i)
    /\ UNCHANGED <<orchVars, envVars, sessions, usedPorts, proc, sigkill, createErr, nCreate, createLimit,
                   terms, nTerminate>>

\* the 120 s startup timer fires before the marker was seen
StartTimeout(i) ==
    /\ ~exited
    /\ createPc[i] = "starting"
    /\ Rollback(i)
    /\ UNCHANGED <<orchVars, envVars, sessions, usedPorts, proc, sigkill, createErr, nCreate, createLimit,
                   terms, nTerminate>>

\* the child's 'error' event before the marker was seen
ProcError(i) ==
    /\ ~exited
    /\ createPc[i] = "starting"
    /\ proc[i] = "failed"
    /\ Rollback(i)
    /\ UNCHANGED <<orchVars, envVars, sessions, usedPorts, proc, sigkill, createErr, nCreate, createLimit,
                   terms, nTerminate>>

\* the child exits (by itself, on SIGTERM or on SIGKILL): the 'exit' handler
ProcExit(i) ==
    /\ ~exited
    /\ proc[i] = "running"
    /\ proc' = [proc EXCEPT ![i] = "exited"]
    /\ session' = [session EXCEPT ![i].status = "terminated"]
    /\ UNCHANGED <<orchVars, envVars, sessions, usedPorts, killed, sigkill, createPc, createErr,
                   nCreate, createLimit, terms, nTerminate, graceTimer>>

\* terminateSession called by a client, the idle sweep or shutdown, up to
\* its await; on an id without a record it returns at once and changes nothing
TerminateSession(i) ==
    /\ ~exited
    /\ IF i \in sessions
       THEN /\ nTerminate < MaxTerminateCalls
            /\ nTerminate' = nTerminate + 1
            /\ KillAndArm(i)
            /\ terms' = [terms EXCEPT ![i] = @ + 1]
       ELSE UNCHANGED <<killed, graceTimer, terms, nTerminate>>
    /\ UNCHANGED <<orchVars, envVars, sessions, usedPorts, session, proc, sigkill, createPc,
                   createErr, nCreate, createLimit>>

\* a terminateSession whose fs.remove failed rejects
PropagateRemove(removed) == removed

\* the try/catch around fs.remove in terminateSession: the failure is logged
\* and the call goes on
CatchRemove(removed) == TRUE

\* terminateSession from the moment fs.remove settles, removed or not
TerminateSettle(i, removed) ==
    /\ terms[i] > 0
    /\ terms' = [terms EXCEPT ![i] = @ - 1]
    /\ rmFailed' = IF removed THEN rmFailed ELSE rmFailed \cup {i}
    /\ IF CatchRemove(removed)
       THEN /\ usedPorts' = ReleasePort(usedPorts, session[i].port)
            /\ sessions' = sessions \ {i}
            /\ UNCHANGED termRejected
       ELSE /\ termRejected' = termRejected \cup {i}
            /\ UNCHANGED <<usedPorts, sessions>>
    /\ UNCHANGED <<orchVars, clock, sweep, response, shut, exited, upd, session,
                   genFailed, sortVars, serviceVars, proc, killed, sigkill, createPc, createErr, nCreate,
                   createLimit, nTerminate, graceTimer>>

\* terminateSession after fs.remove removed the project directory
TerminateFinish(i) ==
    /\ ~exited
    /\ TerminateSettle(i, TRUE)

\* terminateSession after fs.remove failed
TerminateRemoveFailed(i) ==
    /\ ~exited
    /\ TerminateSettle(i, FALSE)

\* the same for the terminateSession of createSession's catch block, after
\* which createSession rethrows
RollbackFinish(i) ==
    /\ ~exited
    /\ createPc[i] = "rollback"
    /\ createPc' = [createPc EXCEPT ![i] = "failed"]
    /\ usedPorts' = ReleasePort(usedPorts, session[i].port)
    /\ sessions' = sessions \ {i}
    /\ UNCHANGED <<orchVars, envVars, session, proc, killed, sigkill, createErr, nCreate, createLimit, terms, nTerminate,
                   graceTimer>>

\* a 5 s timer of terminateSession fires: SIGKILL unless killed is set
GraceTimer(i) ==
    /\ ~exited
    /\ graceTimer[i] = "pending"
    /\ graceTimer' = [graceTimer EXCEPT ![i] = "fired"]
    /\ sigkill' = [sigkill EXCEPT ![i] =
           @ \/ (session[i].flutterProcess /\ ~killed[i] /\ Delivered(i))]
    /\ UNCHANGED <<orchVars, envVars, sessions, usedPorts, session, proc, killed, createPc,
                   createErr, nCreate, createLimit, terms, nTerminate>>

\* time passes
Tick ==
    /\ clock < MaxTime
    /\ clock' = clock + 1
    /\ UNCHANGED <<smVars, orchVars, sweep, response, shut, exited, upd, outcomeVars, sortVars, serviceVars>>

\* time passes without end: once the clock is at MaxTime the times that were
\* recorded are moved back instead, which keeps every age up to MaxTime
Earlier(t) == IF t > 0 THEN t - 1 ELSE 0
TimePasses ==
    /\ IF clock < MaxTime
       THEN /\ clock' = clock + 1
            /\ UNCHANGED <<session, sweep>>
       ELSE /\ session' = [i \in Ids |->
                              [session[i] EXCEPT !.lastActive = Earlier(@)]]
            /\ sweep' = [sweep EXCEPT !.now = Earlier(@)]
            /\ UNCHANGED clock
    /\ UNCHANGED <<orchVars, smRest, response, shut, exited, upd, outcomeVars,
                   sortVars, serviceVars>>

\* getSession (GET /:sessionId): a session of the store is marked active
GetSession(i) ==
    /\ i \in sessions
    /\ session' = [session EXCEPT ![i].lastActive = clock]
    /\ UNCHANGED <<orchVars, envVars, sessions, usedPorts, proc, killed,
                   sigkill, createPc, createErr, nCreate, createLimit, terms,
                   nTerminate, graceTimer>>

\* a test that also takes for inactive a session whose last activity is
\* the threshold old exactly
IdleOrAtThreshold(now, last) == now - last >= inactiveThreshold

\* now.getTime() - session.lastActive.getTime() > inactiveThreshold
Idle(now, last) == now - last > inactiveThreshold

\* the for loop of the cleanup timer's callback from the entry after `after`
\* (the Map iterates in insertion order, which is the order of the ids) up to
\* its next await: the first inactive session met is terminated, up to the
\* await of terminateSession; without one the pass ends
SweepFrom(after, now, live) ==
    LET idle == {i \in live : i > after /\ Idle(now, session[i].lastActive)}
    IN IF idle = {}
       THEN /\ sweep' = NoSweep
            /\ UNCHANGED <<killed, graceTimer>>
       ELSE /\ sweep' = [pc |-> "waiting", now |-> now, cur |-> Min(idle)]
            /\ KillAndArm(Min(idle))

\* the cleanup timer fires (every 10 minutes)
SweepStart ==
    /\ sweep.pc = "idle"
    /\ SweepFrom(0, clock, sessions)
    /\ UNCHANGED <<orchVars, clock, sessions, usedPorts, session, proc, sigkill,
                   createPc, createErr, nCreate, createLimit, terms, nTerminate,
                   response, shut, exited, upd, outcomeVars, sortVars, serviceVars>>

\* fs.remove settles for the terminateSession the pass awaits: the port and
\* the record are deleted and the loop goes on
SweepResume ==
    /\ sweep.pc = "waiting"
    /\ usedPorts' = ReleasePort(usedPorts, session[sweep.cur].port)
    /\ sessions' = sessions \ {sweep.cur}
    /\ SweepFrom(sweep.cur, sweep.now, sessions \ {sweep.cur})
    /\ UNCHANGED <<orchVars, clock, session, proc, sigkill, createPc, createErr,
                   nCreate, createLimit, terms, nTerminate, response, shut,
                   exited, upd, outcomeVars, sortVars, serviceVars>>

\* POST /:sessionId/code of the route file that calls updateSessionCode: 404
\* without a record, 400 when the status is not ready (getSession has marked
\* the session active), otherwise updateSessionCode up to its first await
UpdateCode(i) ==
    /\ ~exited
    /\ upd.pc # "running"
    /\ IF i \notin sessions
       THEN /\ upd' = [NoUpdate EXCEPT !.pc = "done", !.id = i,
                                       !.result = "not_found"]
            /\ UNCHANGED session
       ELSE /\ session' = [session EXCEPT ![i].lastActive = clock]
            /\ upd' = IF session[i].status # "ready"
                      THEN [NoUpdate EXCEPT !.pc = "done", !.id = i,
                                            !.result = "not_ready"]
                      ELSE [NoUpdate EXCEPT !.pc = "running", !.id = i]
    /\ UNCHANGED <<orchVars, clock, sweep, response, shut, exited, smRest,
                   outcomeVars, sortVars, serviceVars>>

\* hotReload: it throws unless the store has the record and the record a
\* child process; otherwise 'r' is written to the child's stdin
hotReload(i) ==
    IF i \in sessions /\ session[i].flutterProcess THEN "ok" ELSE "failed"

\* the awaits of updateSessionCode settle: the generation or a file
\* operation throws, or the files are written and hotReload is called; any
\* error is logged and thrown again
UpdateFinish ==
    /\ ~exited
    /\ upd.pc = "running"
    /\ \E ok \in BOOLEAN :
         upd' = IF ~ok
                THEN [upd EXCEPT !.pc = "done", !.result = "error"]
                ELSE [upd EXCEPT !.pc = "done", !.wrote = TRUE,
                                 !.reload = hotReload(upd.id),
                                 !.result = IF hotReload(upd.id) = "ok"
                                            THEN "ok" ELSE "error"]
    /\ UNCHANGED <<smVars, orchVars, clock, sweep, response, shut, exited,
                   outcomeVars, sortVars, serviceVars>>

\* SIGTERM or SIGINT: the handler of sessionManager.ts calls shutdown(), which
\* calls terminateSession on every key of the store, each up to its await,
\* and awaits them all; the handler of index.ts then calls server.close
Signal ==
    /\ ~exited
    /\ shut.pc = "none"
    /\ shut' = [pc |-> IF sessions = {} THEN "returned" ELSE "waiting",
                live |-> sessions, wait |-> sessions]
    /\ killed' = [i \in Ids |->
           IF i \in sessions /\ session[i].flutterProcess
           THEN killed[i] \/ Delivered(i) ELSE killed[i]]
    /\ graceTimer' = [i \in Ids |->
           IF i \in sessions /\ session[i].flutterProcess
           THEN "pending" ELSE graceTimer[i]]
    /\ UNCHANGED <<orchVars, clock, sweep, response, exited, upd, outcomeVars, sortVars, serviceVars, sessions, usedPorts,
                   session, proc, sigkill, createPc, createErr, nCreate,
                   createLimit, terms, nTerminate>>

\* fs.remove settles for a terminateSession of shutdown; when it was the
\* last, Promise.all resolves and shutdown returns
ShutdownFinish(i) ==
    /\ ~exited
    /\ i \in shut.wait
    /\ usedPorts' = ReleasePort(usedPorts, session[i].port)
    /\ sessions' = sessions \ {i}
    /\ shut' = [shut EXCEPT !.wait = @ \ {i},
                            !.pc = IF shut.wait = {i} THEN "returned" ELSE @]
    /\ UNCHANGED <<orchVars, clock, sweep, response, exited, upd, outcomeVars, sortVars, serviceVars, session, proc,
                   killed, sigkill, createPc, createErr, nCreate, createLimit,
                   terms, nTerminate, graceTimer>>

\* the callback of server.close: process.exit(0); no handler of the session
\* manager runs in a process that has exited
ServerClosed ==
    /\ ~exited
    /\ shut.pc # "none"
    /\ exited' = TRUE
    /\ UNCHANGED <<smVars, orchVars, clock, sweep, response, shut, upd,
                   outcomeVars, sortVars, serviceVars>>


(***************************************************************************)
(* Multi-stage task orchestrator: MasterOrchestratorAgent and the          *)
(* MultiAgentService session that drives it.                               *)
(***************************************************************************)

CallIds == 1..MaxCalls

\* the session the multi-agent session of the model belongs to (its
\* sessionId is the FlutterSession's)
OwnerId == 1

\* a task as createExecutionPlan stores it
Plan(id, type, agentId, deps) ==
    [id |-> id, type |-> type, agentId |-> agentId, dependencies |-> deps,
     status |-> "pending", runs |-> 0]

\* design, then code from the design, then tests of the code
ChainPlans ==
    << Plan("d", "design", "design-agent", <<>>),
       Plan("c", "code", "code-agent", <<"d">>),
       Plan("t", "test", "testing-agent", <<"c">>) >>

\* two tasks that depend on each other
CyclicPlans ==
    << Plan("a", "design", "design-agent", <<"b">>),
       Plan("b", "code", "code-agent", <<"a">>) >>

\* code listed before the design it depends on
UnorderedPlans ==
    << Plan("c", "code", "code-agent", <<"d">>),
       Plan("d", "design", "design-agent", <<>>) >>

\* a design task that the planner's answer assigns to the code agent
MisroutedPlans ==
    << Plan("d", "design", "code-agent", <<>>) >>

\* two code tasks
TwoCodePlans ==
    << Plan("c", "code", "code-agent", <<>>),
       Plan("c2", "code", "code-agent", <<>>) >>

\* what callGemini may answer to the planning prompt: it throws ("error"), it
\* answers without a plans field ("noplans"), or it answers a list of plans
PlannerResponses ==
    { [kind |-> "error", plans |-> <<>>],
      [kind |-> "noplans", plans |-> <<>>],
      [kind |-> "plans", plans |-> <<>>],
      [kind |-> "plans", plans |-> ChainPlans],
      [kind |-> "plans", plans |-> CyclicPlans],
      [kind |-> "plans", plans |-> UnorderedPlans],
      [kind |-> "plans", plans |-> MisroutedPlans],
      [kind |-> "plans", plans |-> TwoCodePlans] }

NoCall ==
    [kind |-> "none", pc |-> "idle", stage |-> "none", gen |-> 0,
     sorted |-> <<>>, idx |-> 0, success |-> FALSE, status |-> "none",
     generated |-> FALSE, clean |-> FALSE, agent |-> "none",
     empty |-> FALSE]

\* state.finalResult before any integration: null
NullResult ==
    [isNull |-> TRUE, design |-> "null", code |-> "null", tests |-> "null"]

NoProgress ==
    [currentPhase |-> "initialization", completedPlans |-> 0,
     totalPlans |-> 0, currentAgent |-> "null"]

\* state after MultiAgentService.createSession built the session and its
\* orchestrator
OrchInit ==
    /\ orchPhase = "planning"
    /\ plansRef = 0
    /\ heap = [g \in CallIds |-> <<>>]
    /\ finalResult = NullResult
    /\ maStatus = "initializing"
    /\ progress = NoProgress
    /\ calls = [c \in CallIds |-> NoCall]
    /\ nCalls = 0
    /\ workspace = [written |-> FALSE, reloads |-> 0]

\* this.state.plans
PlansOf(hp, ref) == IF ref = 0 THEN <<>> ELSE hp[ref]
CurrentPlans == PlansOf(heap, plansRef)

\* plans.find(p => p.id === depId): the index of the first such plan, or 0
FindPlan(plans, id) ==
    IF \E k \in 1..Len(plans) : plans[k].id = id
    THEN Min({k \in 1..Len(plans) : plans[k].id = id})
    ELSE 0

\* addPlan of sortPlansByDependencies; acc is [sorted, processed, overflow]
\* and overflow stands for the RangeError of a call stack that is exhausted
RECURSIVE addPlan(_, _, _, _)
RECURSIVE addDeps(_, _, _, _, _)
addDeps(plans, k, j, acc, depth) ==
    IF j > Len(plans[k].dependencies) \/ acc.overflow
    THEN acc
    ELSE LET depId == plans[k].dependencies[j]
             d == FindPlan(plans, depId)
         IN addDeps(plans, k, j + 1,
                    IF d # 0 /\ depId \notin acc.processed
                    THEN addPlan(plans, d, acc, depth + 1)
                    ELSE acc,
                    depth)

\* addPlan pushing the plan before its dependencies
addPlanPreorder(plans, k, acc, depth) ==
    IF acc.overflow \/ plans[k].id \in acc.processed
    THEN acc
    ELSE IF depth > MaxStackDepth
    THEN [acc EXCEPT !.overflow = TRUE]
    ELSE addDeps(plans, k, 1,
                 [sorted |-> Append(acc.sorted, k),
                  processed |-> acc.processed \cup {plans[k].id},
                  overflow |-> FALSE],
                 depth)

addPlan(plans, k, acc, depth) ==
    IF acc.overflow \/ plans[k].id \in acc.processed
    THEN acc
    ELSE IF depth > MaxStackDepth
    THEN [acc EXCEPT !.overflow = TRUE]
    ELSE LET after == addDeps(plans, k, 1, acc, depth)
         IN IF after.overflow
            THEN after
            ELSE [sorted |-> Append(after.sorted, k),
                  processed |-> after.processed \cup {plans[k].id},
                  overflow |-> FALSE]

RECURSIVE addAll(_, _, _)
addAll(plans, k, acc) ==
    IF k > Len(plans) THEN acc ELSE addAll(plans, k + 1, addPlan(plans, k, acc, 1))

\* the plans in the order of the array, whatever they depend on
arrayOrder(plans) ==
    [sorted |-> [k \in 1..Len(plans) |-> k],
     processed |-> {plans[k].id : k \in 1..Len(plans)},
     overflow |-> FALSE]

\* sortPlansByDependencies: the indexes of the plans in execution order
sortPlansByDependencies(plans) ==
    addAll(plans, 1, [sorted |-> <<>>, processed |-> {}, overflow |-> FALSE])

\* the dependency lists of a plan: up to MaxDeps distinct ids, in any order,
\* ids of no plan of the array among them
DepLists ==
    {d \in UNION {[1..m -> 1..MaxTasks] : m \in 0..MaxDeps} :
        \A a \in 1..Len(d) : \A b \in 1..Len(d) : a # b => d[a] # d[b]}

\* a plans array: the ids of its plans are distinct
TaskList(n, deps) ==
    [k \in 1..n |-> Plan(k, "code", "code-agent", deps[k])]

\* an array iterated from its end on calls after the first
PlansByCall(plans, n) ==
    IF n = 0 THEN plans ELSE [k \in 1..Len(plans) |-> plans[Len(plans) + 1 - k]]

\* the array a call iterates (for ... of plans, plans.find): the caller's
\* array in index order, whichever call it is
PlansIterated(plans, n) == plans

\* the returned array read from its end
SortCallBackwards(plans) ==
    LET r == sortPlansByDependencies(plans)
    IN [thrown |-> r.overflow,
        order |-> IF r.overflow THEN <<>>
                  ELSE [k \in 1..Len(r.sorted) |->
                           plans[r.sorted[Len(r.sorted) + 1 - k]].id]]

\* what a call of sortPlansByDependencies gives its caller: the plans in the
\* order of the returned array, or the RangeError thrown
SortCall(plans) ==
    LET r == sortPlansByDependencies(plans)
    IN [thrown |-> r.overflow,
        order |-> IF r.overflow THEN <<>>
                  ELSE [k \in 1..Len(r.sorted) |-> plans[r.sorted[k]].id]]

\* one more call of sortPlansByDependencies on the array
SortPlans ==
    /\ Len(sortResults) < MaxSorts
    /\ sortResults' =
          Append(sortResults,
                 SortCall(PlansIterated(taskList, Len(sortResults))))
    /\ UNCHANGED <<smVars, orchVars, clock, sweep, response, shut, exited, upd,
                   outcomeVars, taskList, serviceVars>>

\* the orchestrator, its service session and the FlutterSession they belong
\* to as one record, so that the code a handler runs up to its next await
\* reads as a composition of steps
St ==
    [phase |-> orchPhase, ref |-> plansRef, heap |-> heap,
     final |-> finalResult, status |-> maStatus, progress |-> progress,
     calls |-> calls, ws |-> workspace, owner |-> session[OwnerId]]

SetSt(r) ==
    /\ orchPhase' = r.phase
    /\ plansRef' = r.ref
    /\ heap' = r.heap
    /\ finalResult' = r.final
    /\ maStatus' = r.status
    /\ progress' = r.progress
    /\ calls' = r.calls
    /\ workspace' = r.ws
    /\ session' = [session EXCEPT ![OwnerId] = r.owner]

\* a call returns {success, status: session.status}
Return(st, c, success) ==
    [st EXCEPT !.calls[c].pc = "done",
               !.calls[c].empty = FALSE,
               !.calls[c].success = success,
               !.calls[c].status = st.status]

\* a failure branch that also marks the owning FlutterSession
ServiceFailedTeardown(st, c) ==
    Return([st EXCEPT !.status = "failed", !.owner.status = "error"], c, FALSE)

\* the failure branches of processUserPrompt and of continueExecution:
\* session.status = 'failed', and the failure is returned
ServiceFailed(st, c) ==
    Return([st EXCEPT !.status = "failed"], c, FALSE)

\* call c has met a failure of the planner, of a worker or of the project
\* generation (clean is not state of the program: it records that none has)
Unclean(st, c) == [st EXCEPT !.calls[c].clean = FALSE]

\* the last completed plan of the type, or 0
getLastResultByType(plans, type) ==
    LET hits == {k \in 1..Len(plans) :
                    plans[k].type = type /\ plans[k].status = "completed"}
    IN IF hits = {} THEN 0 ELSE CHOOSE k \in hits : \A j \in hits : j <= k

\* getResultByType: the first completed plan of the type, or 0
getResultByType(plans, type) ==
    LET hits == {k \in 1..Len(plans) :
                    plans[k].type = type /\ plans[k].status = "completed"}
    IN IF hits = {} THEN 0 ELSE Min(hits)

\* one slot of the artifact: the result of the plan found, or null (the
\* result of a plan is named by the plan's id)
Slot(plans, type) ==
    LET k == getResultByType(plans, type)
    IN IF k = 0 THEN "null" ELSE plans[k].id

\* integrateResults
integrateResults(st) ==
    LET plans == PlansOf(st.heap, st.ref)
    IN [st EXCEPT !.final = [isNull |-> FALSE,
                             design |-> Slot(plans, "design"),
                             code |-> Slot(plans, "code"),
                             tests |-> Slot(plans, "test")],
                  !.phase = "completion"]

CompletedCount(plans) ==
    Cardinality({k \in 1..Len(plans) : plans[k].status = "completed"})

CurrentAgent(plans) ==
    LET busy == {k \in 1..Len(plans) : plans[k].status = "in_progress"}
    IN IF busy = {} THEN "null" ELSE plans[Min(busy)].agentId

\* MultiAgentService.continueExecution after the orchestrator answered with
\* success: progress is refreshed; a completed orchestrator makes the session
\* completed and generateFlutterProject is awaited, otherwise the session is
\* executing and the call returns
ServiceAfter(st, c) ==
    LET plans == PlansOf(st.heap, st.ref)
        st1 == [st EXCEPT !.progress =
                   [currentPhase |-> st.phase,
                    completedPlans |-> CompletedCount(plans),
                    totalPlans |-> Len(plans),
                    currentAgent |-> CurrentAgent(plans)]]
    IN IF st1.phase = "completion" /\ ~st1.final.isNull
       THEN [st1 EXCEPT !.status = "completed", !.calls[c].pc = "generate"]
       ELSE Return([st1 EXCEPT !.status = "executing"], c, TRUE)

\* one more dispatch of a task
Again(n) == IF n < MaxRuns THEN n + 1 ELSE n

\* getAgentAction
getAgentAction(planType) ==
    CASE planType = "design" -> "create_design"
      [] planType = "code" -> "generate_code"
      [] planType = "test" -> "generate_tests"
      [] OTHER -> "process"

\* the agent the bus hands the request for a plan to: agentId of the message
\* is the plan's agentId, and sendMessage looks the agent up by it
MessageAgent(plan) == plan.agentId

\* the actions that the processMessage of a registered agent knows, among
\* those getAgentAction yields; any other action makes it answer a failure
KnownActions(agent) ==
    CASE agent = "design-agent" -> {"create_design"}
      [] agent = "code-agent" -> {"generate_code"}
      [] agent = "testing-agent" -> {"generate_tests"}
      [] OTHER -> {}

\* what the callGemini of a worker may give its processMessage: it throws
\* ("error"), it returns a falsy value ("none"), or it returns an object, with
\* no file in it ("empty") or with files ("files")
WorkerResults == {"error", "none", "empty", "files"}

\* BaseAgent.validateResult: success unless the result is falsy
validateResult(result) == result # "none"

\* the success field of what agentBus.sendMessage resolves to (a throw of
\* sendMessage is caught by executeReWOOPlan with the same effect as a
\* failure)
WorkerSuccess(agent, action, result) ==
    /\ action \in KnownActions(agent)
    /\ result # "error"
    /\ validateResult(result)

\* executeReWOOPlan from its for loop to its first await: the first plan of
\* the order is in_progress and its agent has been sent the request
Dispatch(st, c, stage, order) ==
    [st EXCEPT !.heap[st.ref][order[1]].status = "in_progress",
               !.heap[st.ref][order[1]].runs = Again(@),
               !.calls[c].pc = "agent",
               !.calls[c].agent = MessageAgent(st.heap[st.ref][order[1]]),
               !.calls[c].stage = stage,
               !.calls[c].gen = st.ref,
               !.calls[c].sorted = order,
               !.calls[c].idx = 1]

\* MultiAgentService.continueExecution up to its first await, through
\* MasterOrchestratorAgent.continueExecution
ContinueBody(st, c) ==
    CASE st.phase = "execution" ->
            LET s == sortPlansByDependencies(PlansOf(st.heap, st.ref))
            IN IF s.overflow THEN ServiceFailed(Unclean(st, c), c)
               ELSE IF s.sorted = <<>> THEN ServiceAfter(st, c)
               ELSE Dispatch(st, c, "continue", s.sorted)
      [] st.phase = "integration" -> ServiceAfter(integrateResults(st), c)
      [] OTHER -> ServiceFailed(st, c)

\* buildApplication after executeReWOOPlan succeeded (integration), then
\* processUserPrompt after the orchestrator answered with success, which
\* goes on into continueExecution
ExecDoneBuild(st, c) ==
    LET i == integrateResults([st EXCEPT !.phase = "integration"])
    IN ContinueBody([i EXCEPT !.status = "executing",
                              !.progress.currentPhase = "execution"], c)

\* buildApplication after createExecutionPlan succeeded: phase 2
BuildBody(st, c) ==
    LET st1 == [st EXCEPT !.phase = "execution"]
        s == sortPlansByDependencies(PlansOf(st1.heap, st1.ref))
    IN IF s.overflow THEN ServiceFailed(Unclean(st1, c), c)
       ELSE IF s.sorted = <<>> THEN ExecDoneBuild(st1, c)
       ELSE Dispatch(st1, c, "build", s.sorted)

\* processUserPrompt up to the await of callGemini in createExecutionPlan
ProcessUserPrompt ==
    /\ nCalls < MaxCalls
    /\ nCalls' = nCalls + 1
    /\ LET c == nCalls + 1
       IN SetSt([St EXCEPT !.status = "planning",
                           !.progress.currentPhase = "planning",
                           !.phase = "planning",
                           !.calls[c] = [NoCall EXCEPT !.kind = "prompt",
                                                       !.pc = "planning",
                                                       !.clean = TRUE]])
    /\ UNCHANGED <<smRest, envVars>>

\* POST /:sessionId/code: 404 when getSession finds no record; otherwise the
\* session is marked active and processUserPrompt is called on its
\* multi-agent session
PostCode(i) ==
    IF i \notin sessions
    THEN /\ response' = "not_found"
         /\ UNCHANGED <<smVars, orchVars, clock, sweep, shut, exited, upd, outcomeVars, sortVars, serviceVars>>
    ELSE /\ i = OwnerId
         /\ nCalls < MaxCalls
         /\ nCalls' = nCalls + 1
         /\ response' = "accepted"
         /\ LET c == nCalls + 1
            IN SetSt([St EXCEPT !.owner.lastActive = clock,
                                !.status = "planning",
                                !.progress.currentPhase = "planning",
                                !.phase = "planning",
                                !.calls[c] = [NoCall EXCEPT !.kind = "prompt",
                                                            !.pc = "planning",
                                                            !.clean = TRUE]])
         /\ maSessions' = maSessions \cup {i}
         /\ UNCHANGED <<smRest, clock, sweep, shut, exited, upd, outcomeVars, sortVars>>

\* DELETE /:sessionId up to the await inside terminateSession:
\* cleanupSession resets the orchestrator and deletes the multi-agent
\* session if there is one, then terminateSession kills the child
DeleteSession(i) ==
    /\ ~exited
    /\ IF i \in maSessions
       THEN /\ orchPhase' = "planning"
            /\ plansRef' = 0
            /\ finalResult' = NullResult
            /\ maSessions' = maSessions \ {i}
       ELSE UNCHANGED <<orchPhase, plansRef, finalResult, maSessions>>
    /\ IF i \in sessions
       THEN /\ nTerminate < MaxTerminateCalls
            /\ nTerminate' = nTerminate + 1
            /\ KillAndArm(i)
            /\ terms' = [terms EXCEPT ![i] = @ + 1]
       ELSE UNCHANGED <<killed, graceTimer, terms, nTerminate>>
    /\ UNCHANGED <<heap, maStatus, progress, calls, nCalls, workspace, clock,
                   sweep, response, shut, exited, upd, outcomeVars, sortVars,
                   sessions, usedPorts, session, proc, sigkill, createPc,
                   createErr, nCreate, createLimit>>

\* callGemini settles: createExecutionPlan stores the plans (or fails), and
\* buildApplication goes on to its first agent request
PlanningResponse(c) ==
    /\ calls[c].pc = "planning"
    /\ \E resp \in PlannerResponses :
         IF resp.kind = "plans"
         THEN SetSt(BuildBody([St EXCEPT !.heap[c] = resp.plans, !.ref = c], c))
         ELSE SetSt(ServiceFailed(Unclean(St, c), c))
    /\ UNCHANGED <<nCalls, smRest, envVars>>

\* a continueExecution call of a client (POST /:sessionId/continue); it
\* throws, and changes nothing, as long as no POST /:sessionId/code has
\* created the multi-agent session
ContinueExecution ==
    /\ maStatus # "initializing"
    /\ nCalls < MaxCalls
    /\ nCalls' = nCalls + 1
    /\ LET c == nCalls + 1
       IN SetSt(ContinueBody(
              [St EXCEPT !.calls[c] = [NoCall EXCEPT !.kind = "continue"]], c))
    /\ UNCHANGED <<smRest, envVars>>

\* agentBus.sendMessage settles for the plan in progress of call c
AgentResponse(c) ==
    /\ calls[c].pc = "agent"
    /\ \E result \in WorkerResults :
         LET f == calls[c]
             k == f.sorted[f.idx]
         IN IF ~WorkerSuccess(f.agent, getAgentAction(heap[f.gen][k].type), result)
            THEN SetSt(ServiceFailed(Unclean(
                     [St EXCEPT !.heap[f.gen][k].status = "failed"], c), c))
            ELSE LET st1 == [St EXCEPT !.heap[f.gen][k].status = "completed",
                                       !.calls[c].empty = (@ \/ result = "empty")]
                 IN IF f.idx < Len(f.sorted)
                    THEN LET k2 == f.sorted[f.idx + 1]
                         IN SetSt([st1 EXCEPT
                                !.heap[f.gen][k2].status = "in_progress",
                                !.heap[f.gen][k2].runs = Again(@),
                                !.calls[c].agent = MessageAgent(heap[f.gen][k2]),
                                !.calls[c].idx = f.idx + 1])
                    ELSE IF f.stage = "build"
                    THEN SetSt(ExecDoneBuild(st1, c))
                    ELSE SetSt(ServiceAfter(st1, c))
    /\ UNCHANGED <<nCalls, smRest, envVars>>

\* generateFlutterProject settles: the files are written and the hot reload
\* is triggered, or it throws and the session is failed
GenerateDone(c) ==
    /\ calls[c].pc = "generate"
    /\ \E ok \in BOOLEAN :
         IF ok
         THEN SetSt(Return([St EXCEPT !.ws.written = TRUE,
                                      !.ws.reloads = @ + 1,
                                      !.calls[c].generated = TRUE], c, TRUE))
         ELSE SetSt(ServiceFailed(Unclean(St, c), c))
    /\ UNCHANGED <<nCalls, smRest, envVars>>

\* the client's polling: a continue request that was answered with success
\* and a status other than 'completed' is sent again 3 s later
Poll(c) ==
    /\ calls[c].kind = "continue"
    /\ calls[c].pc = "done"
    /\ calls[c].success
    /\ calls[c].status # "completed"
    /\ SetSt(ContinueBody(
           [St EXCEPT !.calls[c] = [NoCall EXCEPT !.kind = "continue"]], c))
    /\ UNCHANGED <<nCalls, smRest, envVars>>

OrchNext ==
    \/ ProcessUserPrompt
    \/ ContinueExecution
    \/ \E c \in CallIds : PlanningResponse(c)
    \/ \E c \in CallIds : AgentResponse(c)
    \/ \E c \in CallIds : GenerateDone(c)

SMNext ==
    \/ CreateSession
    \/ \E i \in Ids : InitProjectOk(i)
    \/ \E i \in Ids : SpawnFail(i)
    \/ \E i \in Ids : InitProjectFail(i)
    \/ \E i \in Ids : ServerReady(i)
    \/ \E i \in Ids : StartTimeout(i)
    \/ \E i \in Ids : ProcError(i)
    \/ \E i \in Ids : ProcExit(i)
    \/ \E i \in Ids : TerminateSession(i)
    \/ \E i \in Ids : TerminateFinish(i)
    \/ \E i \in Ids : RollbackFinish(i)
    \/ \E i \in Ids : GraceTimer(i)

\* The session manager with its child processes.
Init == SMInit(MaxProcSessions) /\ OrchInit /\ EnvInit /\ SortIdle /\ NoMultiAgentSession
Next == SMNext
Spec == Init /\ [][Next]_vars

\* The same where what createSession awaits settles: flutter create and the
\* generation end or fail (execAsync has a 30 s timeout), the 120 s startup
\* timer fires unless the call has left startFlutterServer, and the
\* fs.remove of the rollback settles.
InitProjectSettles(i) == InitProjectOk(i) \/ SpawnFail(i) \/ InitProjectFail(i)
CreateFairness ==
    /\ \A i \in Ids : WF_vars(InitProjectSettles(i))
    /\ \A i \in Ids : WF_vars(StartTimeout(i))
    /\ \A i \in Ids : WF_vars(RollbackFinish(i))
SpecCreate == Init /\ [][Next]_vars /\ CreateFairness

\* The store and the port set alone.  ProcExit and GraceTimer write proc,
\* session[i].status, sigkill and graceTimer only, and no action reads these
\* to decide what it does to sessions, usedPorts, createPc or terms (ServerReady
\* needs a child that was spawned, running or exited);
\* SpawnFail followed by ProcError does to them what InitProjectOk followed
\* by StartTimeout does.  Leaving the four out keeps every behaviour of the
\* store and the port set.
StoreInit == SMInit(MaxCreateCalls) /\ OrchInit /\ EnvInit /\ SortIdle /\ NoMultiAgentSession
StoreNext ==
    \/ CreateSession
    \/ \E i \in Ids : InitProjectOk(i)
    \/ \E i \in Ids : InitProjectFail(i)
    \/ \E i \in Ids : ServerReady(i)
    \/ \E i \in Ids : StartTimeout(i)
    \/ \E i \in Ids : TerminateSession(i)
    \/ \E i \in Ids : TerminateFinish(i)
    \/ \E i \in Ids : RollbackFinish(i)
SpecStore == StoreInit /\ [][StoreNext]_vars

\* createSession applied to every set of held ports: the set is the input of
\* getNextAvailablePort, drawn from the subsets of the range.
PortsInit ==
    /\ createLimit = MaxCreateCalls
    /\ sessions = {}
    /\ usedPorts \in SUBSET Ports
    /\ session = [i \in Ids |-> NoSession]
    /\ proc = [i \in Ids |-> "none"]
    /\ killed = [i \in Ids |-> FALSE]
    /\ sigkill = [i \in Ids |-> FALSE]
    /\ createPc = [i \in Ids |-> "none"]
    /\ createErr = "none"
    /\ nCreate = 0
    /\ terms = [i \in Ids |-> 0]
    /\ nTerminate = 0
    /\ graceTimer = [i \in Ids |-> "none"]
    /\ OrchInit /\ EnvInit /\ SortIdle /\ NoMultiAgentSession
PortsNext ==
    \/ CreateSession
    \/ \E i \in Ids : InitProjectOk(i)
    \/ \E i \in Ids : InitProjectFail(i)
    \/ \E i \in Ids : ServerReady(i)
    \/ \E i \in Ids : RollbackFinish(i)
SpecPorts == PortsInit /\ [][PortsNext]_vars

\* The session manager with createSession calls given an initial prompt.
GenerateNext ==
    \/ SMNext
    \/ \E i \in Ids : InitProjectGenFail(i)
SpecGenerate == Init /\ [][GenerateNext]_vars

\* sortPlansByDependencies applied to the plans arrays.
SortInit ==
    /\ SMInit(MaxProcSessions) /\ OrchInit /\ EnvInit /\ NoMultiAgentSession
    /\ \E n \in 0..MaxTasks : \E deps \in [1..n -> DepLists] :
          taskList = TaskList(n, deps)
    /\ sortResults = <<>>
SortNext == SortPlans
SpecSort == SortInit /\ [][SortNext]_vars

\* The store with terminateSession calls whose directory removal may fail.
RemoveInit == SMInit(MaxRemoveSessions) /\ OrchInit /\ EnvInit /\ SortIdle /\ NoMultiAgentSession
RemoveNext ==
    \/ CreateSession
    \/ \E i \in Ids : InitProjectOk(i)
    \/ \E i \in Ids : ServerReady(i)
    \/ \E i \in Ids : TerminateSession(i)
    \/ \E i \in Ids : TerminateFinish(i)
    \/ \E i \in Ids : TerminateRemoveFailed(i)
    \/ \E i \in Ids : ProcExit(i)
SpecRemove == RemoveInit /\ [][RemoveNext]_vars

\* The session manager with clients that update the code of sessions.
UpdateNext ==
    \/ SMNext
    \/ Tick
    \/ \E i \in Ids : UpdateCode(i)
    \/ UpdateFinish
SpecUpdate == Init /\ [][UpdateNext]_vars

\* The session manager from the start of the server to its exit on a signal.
ShutdownNext ==
    \/ SMNext
    \/ Signal
    \/ \E i \in Ids : ShutdownFinish(i)
    \/ ServerClosed
SpecShutdown == Init /\ [][ShutdownNext]_vars

\* The store under the cleanup timer, with clients that create, read and
\* delete sessions.
SweepInit == SMInit(MaxSweepSessions) /\ OrchInit /\ EnvInit /\ SortIdle /\ NoMultiAgentSession
SweepNext ==
    \/ CreateSession
    \/ \E i \in Ids : InitProjectOk(i)
    \/ \E i \in Ids : ServerReady(i)
    \/ \E i \in Ids : TerminateSession(i)
    \/ \E i \in Ids : TerminateFinish(i)
    \/ \E i \in Ids : GetSession(i)
    \/ Tick
    \/ SweepStart
    \/ SweepResume
SpecSweep == SweepInit /\ [][SweepNext]_vars

\* The store under the cleanup timer with child processes that exit and
\* clients that read sessions.  Time passes, and the cleanup timer fires and
\* its terminateSession calls settle.
ExitNext ==
    \/ CreateSession
    \/ \E i \in Ids : InitProjectOk(i)
    \/ \E i \in Ids : ServerReady(i)
    \/ \E i \in Ids : ProcExit(i)
    \/ \E i \in Ids : GetSession(i)
    \/ TimePasses
    \/ SweepStart
    \/ SweepResume
ExitFairness ==
    /\ WF_vars(TimePasses)
    /\ WF_vars(SweepStart)
    /\ WF_vars(SweepResume)
SpecExit == Init /\ [][ExitNext]_vars /\ ExitFairness

\* state of the session manager after createSession has returned the first
\* session, ready
OwnerReady ==
    /\ createLimit = MaxProcSessions
    /\ sessions = {OwnerId}
    /\ usedPorts = {basePort}
    /\ session = [i \in Ids |->
           IF i = OwnerId
           THEN [port |-> basePort, status |-> "ready",
                 flutterProcess |-> TRUE, lastActive |-> 0]
           ELSE NoSession]
    /\ proc = [i \in Ids |-> IF i = OwnerId THEN "running" ELSE "none"]
    /\ killed = [i \in Ids |-> FALSE]
    /\ sigkill = [i \in Ids |-> FALSE]
    /\ createPc = [i \in Ids |-> IF i = OwnerId THEN "ready" ELSE "none"]
    /\ createErr = "none"
    /\ nCreate = 1
    /\ terms = [i \in Ids |-> 0]
    /\ nTerminate = 0
    /\ graceTimer = [i \in Ids |-> "none"]

\* The routes of a session with its multi-agent session, from the creation
\* of the session on.
AppNext ==
    \/ CreateSession
    \/ \E i \in Ids : InitProjectOk(i)
    \/ \E i \in Ids : ServerReady(i)
    \/ \E i \in Ids : PostCode(i)
    \/ ContinueExecution
    \/ \E c \in CallIds : PlanningResponse(c)
    \/ \E c \in CallIds : AgentResponse(c)
    \/ \E c \in CallIds : GenerateDone(c)
SpecApp == Init /\ [][AppNext]_vars

\* A session with its multi-agent session under the three ways a session
\* is terminated: the DELETE route, the cleanup timer and shutdown.
CleanupNext ==
    \/ CreateSession
    \/ \E i \in Ids : InitProjectOk(i)
    \/ \E i \in Ids : ServerReady(i)
    \/ \E i \in Ids : PostCode(i)
    \/ \E i \in Ids : DeleteSession(i)
    \/ \E i \in Ids : TerminateFinish(i)
    \/ Tick
    \/ SweepStart
    \/ SweepResume
    \/ Signal
    \/ \E i \in Ids : ShutdownFinish(i)
    \/ ServerClosed
SpecCleanup == Init /\ [][CleanupNext]_vars

\* The orchestrator of one session under overlapping requests, the session
\* being ready.
OrchSpecInit ==
    OwnerReady /\ OrchInit /\ EnvInit /\ SortIdle /\ maSessions = {OwnerId}
SpecOrch == OrchSpecInit /\ [][OrchNext]_vars

\* The same with a client that polls.  Every request the service awaits is
\* answered (the planner, the workers, the file system), and the client's
\* timer fires.
PollNext == OrchNext \/ \E c \in CallIds : Poll(c)
PollFairness ==
    /\ \A c \in CallIds : WF_vars(PlanningResponse(c))
    /\ \A c \in CallIds : WF_vars(AgentResponse(c))
    /\ \A c \in CallIds : WF_vars(GenerateDone(c))
    /\ \A c \in CallIds : WF_vars(Poll(c))
SpecPoll == OrchSpecInit /\ [][PollNext]_vars /\ PollFairness

(***************************************************************************)
(* Session manager: ports, records, child processes.                       *)
(***************************************************************************)

\* C1: in every reachable state no two session records of the store have the
\* same port.
PortExclusivity ==
    \A a \in sessions : \A b \in sessions :
        a # b => session[a].port # session[b].port

\* C2: a terminateSession call never frees a port that has meanwhile been
\* allocated to another session: no step removes from the held-port set the
\* port of a record that is in the store after the step.
NoDoubleRelease ==
    [][\A i \in sessions' : ~(session'[i].port \in usedPorts \ usedPorts')]_vars

\* C3: the store never holds more than maxSessions records, and a
\* createSession call made while it holds maxSessions fails with the capacity
\* error and leaves the store and the held-port set unchanged.
CapacityBound ==
    /\ [](Cardinality(sessions) <= maxSessions)
    /\ [][(nCreate' # nCreate /\ Cardinality(sessions) = maxSessions)
            => (/\ createErr' = "capacity"
                /\ sessions' = sessions
                /\ usedPorts' = usedPorts)]_vars

CapacityRejected ==
    /\ createErr = "capacity"
    /\ Cardinality(sessions) = maxSessions
    /\ nCreate > maxSessions

\* a createSession call returns its error in this step
Returns(i) == createPc[i] # "failed" /\ createPc'[i] = "failed"

\* C4, as claimed: when createSession returns its error after a failed step,
\* the record is absent from the store and its port is not in the held-port
\* set.
RollbackFreesPort ==
    [][\A i \in Ids : Returns(i) =>
          (i \notin sessions' /\ session[i].port \notin usedPorts')]_vars

\* C4, amended: when createSession returns its error, the record is absent
\* from the store and its port is not held for it: the port is out of the
\* held-port set, or it is the port of another session's record in the store.
RollbackReleases ==
    [][\A i \in Ids : Returns(i) =>
          /\ i \notin sessions'
          /\ session[i].port \in usedPorts' =>
                \E j \in sessions' : j # i /\ session'[j].port = session[i].port]_vars

RolledBack ==
    \E i \in Ids :
        /\ createPc[i] = "failed"
        /\ session[i].status = "error"
        /\ i \notin sessions
        /\ session[i].port \notin usedPorts

\* C8: once createSession has failed and the 5 s timer of its rollback has
\* fired, the child it spawned is no longer running.
TimedOutChildKilled ==
    \A i \in Ids :
        (createPc[i] = "failed" /\ graceTimer[i] = "fired") => proc[i] # "running"

\* C9: a child that is still running when the grace period has elapsed has
\* been sent the force-kill.
ForceKillAfterGrace ==
    \A i \in Ids :
        (graceTimer[i] = "fired" /\ proc[i] = "running") => sigkill[i]

\* C22: a terminateSession call whose removal of the project directory failed
\* has removed the record, the port is no longer held for the session, and
\* the call has not rejected.
ReleaseDespiteRemoveFailure ==
    /\ [][\A i \in Ids :
            (i \in rmFailed' /\ i \notin rmFailed) =>
                /\ i \notin sessions'
                /\ session[i].port \in usedPorts' =>
                      \E j \in sessions' : session'[j].port = session[i].port]_vars
    /\ [](termRejected = {})

\* the removal failed for a session that had a record and a port
RemoveFailedReleased ==
    \E i \in rmFailed :
        /\ i \notin sessions
        /\ session[i].port # NoPort
        /\ session[i].port \notin usedPorts

\* C23: the step in which the generation of the initial code fails starts the
\* child process and leaves createSession waiting for it: no status 'error',
\* no kill, no error to the caller.
GenerationFailureProceeds ==
    [][\A i \in Ids :
          (i \in genFailed' /\ i \notin genFailed) =>
              /\ createPc'[i] = "starting"
              /\ proc'[i] = "running"
              /\ session'[i].status = session[i].status
              /\ createErr' = createErr
              /\ killed' = killed]_vars

\* createSession returned a ready session although the generation had failed
GenerationFailedReady ==
    \E i \in genFailed :
        /\ createPc[i] = "ready"
        /\ session[i].status = "ready"
        /\ proc[i] = "running"

\* C25: every running child process that no kill signal was sent to belongs
\* to a session whose record is in the store, and a session createSession
\* returns as ready has its record in the store.
NoOrphanProcess ==
    /\ [](\A i \in Ids : (proc[i] = "running" /\ ~killed[i]) => i \in sessions)
    /\ [][\A i \in Ids :
            (createPc'[i] = "ready" /\ createPc[i] # "ready") => i \in sessions']_vars

\* C26: the held ports are exactly the ports of the records in the store.
HeldPortsAreRecordPorts ==
    usedPorts = {session[i].port : i \in sessions}

\* C27: no createSession step allocates a port that another session holds or
\* held while the child process of that session is still running.
NoPortReuseWhileRunning ==
    [][\A i \in sessions' \ sessions : \A j \in Ids \ {i} :
          ~(proc[j] = "running" /\ session[j].port = session'[i].port)]_vars

\* C18: a session whose child process has exited does not have status ready.
ExitedNeverReady ==
    \A i \in Ids : proc[i] = "exited" => session[i].status # "ready"

(***************************************************************************)
(* Orchestrator: runs, tasks, artifact.                                    *)
(***************************************************************************)

\* C5: a processUserPrompt call whose planning succeeded and whose workers
\* all succeeded returns with the run completed and the artifact written to
\* the workspace and hot-reloaded.
CleanPromptCompletes ==
    \A c \in CallIds :
        (/\ calls[c].kind = "prompt"
         /\ calls[c].pc = "done"
         /\ calls[c].gen # 0
         /\ calls[c].clean)
        => (calls[c].status = "completed" /\ calls[c].generated)

\* C6: the final artifact is null whenever some task of the current task
\* set is not completed.
NoPartialArtifact ==
    (\E k \in 1..Len(CurrentPlans) : CurrentPlans[k].status # "completed")
        => finalResult.isNull

\* the plans a plan names as its dependencies
DepsOf(plans, k) ==
    {FindPlan(plans, plans[k].dependencies[j]) :
        j \in 1..Len(plans[k].dependencies)} \ {0}

RECURSIVE Reach(_, _, _)
Reach(plans, S, n) ==
    IF n = 0 THEN S
    ELSE Reach(plans, S \cup UNION {DepsOf(plans, k) : k \in S}, n - 1)

HasCycle(plans) ==
    \E k \in 1..Len(plans) : k \in Reach(plans, DepsOf(plans, k), Len(plans))

\* C7: a task set with a dependency cycle is rejected at planning: the
\* orchestrator never passes to execution with it, and none of its tasks is
\* ever in progress or dispatched.
CycleRejectedAtPlanning ==
    HasCycle(CurrentPlans) =>
        /\ orchPhase = "planning"
        /\ \A k \in 1..Len(CurrentPlans) :
              CurrentPlans[k].status = "pending" /\ CurrentPlans[k].runs = 0

Places(order, id) == {q \in 1..Len(order) : order[q] = id}

\* C28: for an array without a dependency cycle sortPlansByDependencies returns
\* every plan exactly once, each after all the plans of the array that it
\* names as dependencies.
SortRespectsDependencies ==
    ~HasCycle(taskList) =>
        \A a \in 1..Len(sortResults) :
            LET order == sortResults[a].order
            IN /\ ~sortResults[a].thrown
               /\ Len(order) = Len(taskList)
               /\ \A k \in 1..Len(taskList) :
                     /\ Cardinality(Places(order, taskList[k].id)) = 1
                     /\ \A d \in DepsOf(taskList, k) :
                           \A q \in Places(order, taskList[k].id) :
                               \A r \in Places(order, taskList[d].id) : r < q

DependencySortedFirst ==
    /\ sortResults # <<>>
    /\ ~HasCycle(taskList)
    /\ Len(taskList) >= 2
    /\ \E d \in DepsOf(taskList, 1) : d > 1
    /\ sortResults[1].order[1] # taskList[1].id

\* C10: while a run of the session is executing (a task of it is with its
\* worker), no processUserPrompt replaces the task set.
SingleActiveRun ==
    [][(\E c \in CallIds : calls[c].pc = "agent") => plansRef' = plansRef]_vars

\* C29: a task of a run whose status is completed keeps that status and is not
\* dispatched again.
CompletedNotRedispatched ==
    [][\A g \in CallIds : \A k \in 1..Len(heap[g]) :
          (heap[g][k].status = "completed" /\ Len(heap'[g]) = Len(heap[g])) =>
              /\ heap'[g][k].status = "completed"
              /\ heap'[g][k].runs = heap[g][k].runs]_vars

RegisteredWorker(type) ==
    CASE type = "design" -> "design-agent"
      [] type = "code" -> "code-agent"
      [] type = "test" -> "testing-agent"
      [] OTHER -> "none"

\* C31: the request for a task is with the agent registered for the kind of
\* the task, whatever the other fields of the task are.
DispatchedByKind ==
    \A c \in CallIds :
        calls[c].pc = "agent" =>
            calls[c].agent =
                RegisteredWorker(heap[calls[c].gen][calls[c].sorted[calls[c].idx]].type)

\* the slot of the final artifact for the tasks of a kind
SlotOf(final, type) ==
    CASE type = "design" -> final.design
      [] type = "code" -> final.code
      [] type = "test" -> final.tests

EmptyResultFails ==
    \A c \in CallIds : ~calls[c].empty

\* C35: at most one task of the orchestrator's plans is in progress.
OneTaskInProgress ==
    Cardinality({k \in 1..Len(CurrentPlans) :
                    CurrentPlans[k].status = "in_progress"}) <= 1

\* C36: while the run is executing, the progress of the session counts the
\* completed tasks and the tasks of the run and names the agent of the task
\* in progress.
ProgressCurrent ==
    (maStatus = "executing" /\ orchPhase = "execution") =>
        /\ progress.completedPlans = CompletedCount(CurrentPlans)
        /\ progress.totalPlans = Len(CurrentPlans)
        /\ progress.currentAgent = CurrentAgent(CurrentPlans)

\* C11: a run that is executing, polled by continueExecution with workers
\* that always respond, eventually is completed or failed.
PollingTerminates ==
    [](maStatus = "executing" => <>(maStatus \in {"completed", "failed"}))
\* C12: a continueExecution call made on a run whose status is failed leaves
\* the status failed and dispatches no task.
FailedAbsorbing ==
    [][(/\ maStatus = "failed"
        /\ nCalls' = nCalls + 1
        /\ calls'[nCalls'].kind = "continue")
       => (maStatus' = "failed" /\ heap' = heap)]_vars
(***************************************************************************)
(* Cleanup timer.                                                          *)
(***************************************************************************)

\* C13: when a pass of the idle sweep ends, no session that is inactive for
\* longer than the threshold at the time of the pass is left in the store,
\* and the port of a session the pass terminated is no longer held for it;
\* and the pass terminates no session whose last activity is within the
\* threshold.
IdleSweep ==
    /\ [][(sweep.pc # "idle" /\ sweep'.pc = "idle") =>
            \A i \in sessions' : ~(sweep.now - session'[i].lastActive > inactiveThreshold)]_vars
    /\ [][(sweep.pc = "waiting" /\ sweep' # sweep) =>
            /\ sweep.cur \notin sessions'
            /\ session[sweep.cur].port \in usedPorts' =>
                  \E j \in sessions' : session'[j].port = session[sweep.cur].port]_vars
    /\ [][(sweep'.pc = "waiting" /\ sweep' # sweep) =>
            clock - session[sweep'.cur].lastActive > inactiveThreshold]_vars

\* a pass has ended that terminated a session and let an active one be
SweptIdleOnly ==
    /\ sweep.pc = "idle"
    /\ nTerminate = 0
    /\ \E i \in Ids : i \notin sessions /\ createPc[i] # "none"
    /\ \E j \in sessions : clock - session[j].lastActive <= inactiveThreshold
(***************************************************************************)
(* Routes.                                                                 *)
(***************************************************************************)

\* C37: a session whose child process has exited without a kill signal is
\* eventually out of the store, and its port is no longer held.
ExitedSessionRemoved ==
    \A i \in Ids :
        [](i \in sessions /\ proc[i] = "exited" /\ ~killed[i]
              => <>(i \notin sessions /\ session[i].port \notin usedPorts))

\* C14: POST /:sessionId/code on an id without a record answers not-found and
\* changes nothing, and a run is started only on a session whose status is
\* ready.
UpdateNeedsReady ==
    /\ [][(response' = "not_found" /\ response # "not_found") =>
            UNCHANGED <<smVars, orchVars>>]_vars
    /\ [][(nCalls' = nCalls + 1 /\ calls'[nCalls'].kind = "prompt") =>
            (OwnerId \in sessions /\ session[OwnerId].status = "ready")]_vars
\* C19: an updateSessionCode call whose hot reload failed returns success,
\* and the session it was called on, ready at the call, has no other status
\* by it.
HotReloadNonFatal ==
    /\ []((upd.pc = "done" /\ upd.reload = "failed") => upd.result = "ok")
    /\ [][(upd.pc = "running" /\ upd'.pc = "done") =>
            session'[upd.id].status = session[upd.id].status]_vars

\* C21: a POST /:sessionId/code that is rejected as not-found or as not-ready
\* changes no session object (its lastActive included), nor the store, the
\* held ports or the state of a run.
RejectedUpdateNoEffect ==
    [][(/\ upd' # upd
        /\ upd'.pc = "done"
        /\ upd'.result \in {"not_found", "not_ready"})
       => UNCHANGED <<smVars, orchVars>>]_vars

(***************************************************************************)
(* Shutdown.                                                               *)
(***************************************************************************)

\* C15: once shutdown() has returned, every session that was in the store
\* when it was called is out of the store, its port is not held for it and
\* its child process is not running.
ShutdownTerminatesAll ==
    shut.pc = "returned" =>
        \A i \in shut.live :
            /\ i \notin sessions
            /\ session[i].port \in usedPorts =>
                  \E j \in sessions : session[j].port = session[i].port
            /\ proc[i] # "running"

\* C16: the server process has not exited on a signal unless shutdown() has
\* returned.
ExitAfterShutdown ==
    exited => shut.pc = "returned"
\* C17: a plan without tasks fails the run at planning: with an empty task
\* set stored, the orchestrator is in no phase after planning and there is no
\* artifact.
EmptyPlanFailsPlanning ==
    (plansRef # 0 /\ Len(CurrentPlans) = 0) =>
        (orchPhase = "planning" /\ finalResult.isNull)
\* C20: a step in which a run fails, at planning or at a task, leaves the
\* owning session as it is in the session manager: ready, in the store, with
\* its port held and its child running and not signalled.
FailedRunLeavesSession ==
    [][(\E c \in CallIds : /\ calls[c].pc \in {"planning", "agent"}
                           /\ calls'[c].pc = "done"
                           /\ ~calls'[c].success)
       => (/\ session' = session
           /\ UNCHANGED smRest
           /\ session'[OwnerId].status = "ready"
           /\ OwnerId \in sessions'
           /\ session'[OwnerId].port \in usedPorts'
           /\ proc'[OwnerId] = "running"
           /\ ~killed'[OwnerId])]_vars

\* a run has failed at a task and another at planning
RunFailedSessionReady ==
    /\ maStatus = "failed"
    /\ \E c \in CallIds : /\ calls[c].pc = "done" /\ ~calls[c].success
                          /\ calls[c].gen # 0
                          /\ \E k \in 1..Len(heap[calls[c].gen]) :
                                 heap[calls[c].gen][k].status = "failed"
    /\ \E c \in CallIds : /\ calls[c].kind = "prompt" /\ calls[c].pc = "done"
                          /\ ~calls[c].success /\ calls[c].gen = 0
                          /\ heap[c] = <<>>
    /\ session[OwnerId].status = "ready"
    /\ OwnerId \in sessions

\* C38: every multi-agent session held by MultiAgentService belongs to a
\* session whose record is in the store of the session manager, as long as
\* the server process runs
MultiAgentSessionHasRecord ==
    ~exited => \A i \in maSessions : i \in sessions

\* C39: every createSession call that has registered its session eventually
\* returns, with the session ready or with an error after which the record
\* is out of the store, whatever the child does before the readiness marker
CreateSessionReturns ==
    /\ [](\A i \in Ids : createPc[i] = "failed" => i \notin sessions)
    /\ \A i \in Ids :
           (createPc[i] \in {"init", "starting", "rollback"})
               ~> (createPc[i] \in {"ready", "failed"})

\* the child exited before the marker and was never signalled; the call has
\* returned the error of the startup timer, the record removed
ExitedBeforeMarkerReturned ==
    \E i \in Ids :
        /\ createPc[i] = "failed"
        /\ proc[i] = "exited"
        /\ ~killed[i]
        /\ i \notin sessions

\* C40: a createSession call that gets to acquire a port takes the lowest
\* port of the range that is not held and holds it, and it fails with the
\* exhaustion error, the store and the held ports as they were, exactly when
\* every port of the range is held
LowestFreePortAcquired ==
    [][(nCreate' = nCreate + 1 /\ createErr' # "capacity") =>
         IF \A p \in Ports : p \in usedPorts
         THEN /\ createErr' = "ports"
              /\ sessions' = sessions
              /\ usedPorts' = usedPorts
         ELSE /\ createErr' = "none"
              /\ \E i \in sessions' \ sessions :
                    /\ sessions' = sessions \cup {i}
                    /\ session'[i].port \in Ports \ usedPorts
                    /\ \A p \in Ports \ usedPorts : session'[i].port <= p
                    /\ usedPorts' = usedPorts \cup {session'[i].port}]_vars

\* a call has taken the port above a held one, and a later call has failed
\* for exhaustion with that session in the store
ExhaustedAfterAcquire ==
    /\ createErr = "ports"
    /\ usedPorts = Ports
    /\ \E i \in sessions : session[i].port > basePort

====
